---- MODULE Spec2Model ----
(***************************************************************************)
(* A model of the CapsuleSampler core (src/src/Sampler.cpp): the message   *)
(* queue between the control threads and the audio thread, the channels,   *)
(* the voice pool, the envelope engine and the mixing pass of Process.     *)
(*                                                                         *)
(* Numbers.  The code computes gains, pitches and fractional positions in  *)
(* 32-bit floats.  The model keeps them in fixed point:                    *)
(*   - a gain or volume g stands for g / GainScale;                        *)
(*   - a pitch or pos_f  p stands for p / PosScale;                        *)
(*   - a pitch bend      b stands for b / 8192 semitones (exact: the code  *)
(*     computes raw * 12 / 8192, and raw * 12 is kept);                    *)
(*   - an ADSR coefficient is a pair <<n, d>> standing for n / d.          *)
(* Products are rounded down to the grid.                                  *)
(***************************************************************************)
EXTENDS Integers, Sequences, FiniteSets, TLC

(***************************************************************************)
(* Compile-time constants of Sampler.h, scaled down.                       *)
(***************************************************************************)
CH_COUNT == 2
MAX_SOUND == 2
ADSR_UPDATE_SAMPLE_COUNT == 2
SAMPLE_BUFFER_SIZE == 2 * ADSR_UPDATE_SAMPLE_COUNT

(***************************************************************************)
(* Bounds of the model.                                                    *)
(***************************************************************************)
MaxQueue == 2      \* messages the queue holds at most
MaxNoteOns == 3    \* note-ons over a run (caps createdAt)
GainScale == 8     \* gain grid: 1.0 is GainScale
PosScale == 2      \* position grid: one sample is PosScale

OCTAVE == 12 * 8192               \* one octave, in 1/8192 semitone

Players == 0 .. (MAX_SOUND - 1)
Channels == 0 .. (CH_COUNT - 1)

(***************************************************************************)
(* Samples and timbres (inputs of the sampler, immutable).                 *)
(***************************************************************************)
NoSample == "nullopt"
NoTimbre == "nullptr"

Samples ==
  [ piano |-> [ length |-> 3, root |-> 60, adsrEnabled |-> FALSE,
                attack |-> <<1, 1>>, decay |-> <<1, 1>>, sustain |-> <<1, 1>>,
                release |-> <<1, 2>>, loopStart |-> 0, loopEnd |-> 0 ],
    pad   |-> [ length |-> 4, root |-> 60, adsrEnabled |-> TRUE,
                attack |-> <<1, 2>>, decay |-> <<1, 2>>, sustain |-> <<1, 2>>,
                release |-> <<1, 2>>, loopStart |-> 1, loopEnd |-> 3 ] ]

SampleIds == DOMAIN Samples

\* A timbre: an ordered list of mapped samples.
Timbres ==
  [ keys |-> << [ lowerNoteNo |-> 48, upperNoteNo |-> 60,
                  lowerVelocity |-> 1, upperVelocity |-> 127, sample |-> "piano" ],
                [ lowerNoteNo |-> 60, upperNoteNo |-> 84,
                  lowerVelocity |-> 0, upperVelocity |-> 127, sample |-> "pad" ] >>,
    pads |-> << [ lowerNoteNo |-> 60, upperNoteNo |-> 84,
                  lowerVelocity |-> 0, upperVelocity |-> 127, sample |-> "pad" ] >> ]

TimbreIds == DOMAIN Timbres

\* Timbre::GetAppropriateSample: the first mapped sample whose region holds
\* (noteNo, velocity), or nullopt.
RECURSIVE FirstMatch(_, _, _, _)
FirstMatch(samples, k, noteNo, velocity) ==
  IF k > Len(samples) THEN NoSample
  ELSE LET ms == samples[k] IN
       IF /\ ms.lowerNoteNo <= noteNo /\ noteNo <= ms.upperNoteNo
          /\ ms.lowerVelocity <= velocity /\ velocity <= ms.upperVelocity
       THEN ms.sample
       ELSE FirstMatch(samples, k + 1, noteNo, velocity)

GetAppropriateSample(t, noteNo, velocity) ==
  FirstMatch(Timbres[t], 1, noteNo, velocity)

\* velocityTable[velocity] (Tables.h): the peak gain of a velocity.
velocityTable(velocity) == (velocity * GainScale) \div 127

\* n / d of x, rounded down to the grid.
Scale(c, x) == (x * c[1]) \div c[2]

\* powf(2.0f, e / OCTAVE) on the position grid: exact at whole octaves,
\* linear in between.
RECURSIVE Pow2(_)
Pow2(k) == IF k = 0 THEN 1 ELSE 2 * Pow2(k - 1)

\* pos is a uint32_t.  TLC's integers end below 2^31, so the model
\* wraps positions at 2^30; no position of the model comes near either.
UINT_RANGE == Pow2(30)

Pow2Fixed(e) ==
  LET q == e \div OCTAVE
      r == e % OCTAVE
  IN IF q >= 0
     THEN (Pow2(q) * PosScale * (OCTAVE + r)) \div OCTAVE
     ELSE (PosScale * (OCTAVE + r)) \div (OCTAVE * Pow2(0 - q))


(***************************************************************************)
(* Voices (Sampler::SamplePlayer).                                         *)
(***************************************************************************)

\* SamplePlayer::UpdatePitch.
UpdatePitch(p) ==
  IF p.sample = NoSample THEN p
  ELSE LET delta == (p.noteNo - Samples[p.sample].root) * 8192 + p.pitchBend
       IN [p EXCEPT !.pitch = Pow2Fixed(delta)]

\* The voice a note-on builds: SamplePlayer(sample, noteNo, volume,
\* pitchBend, channel).  A voice built without a sample is idle.
SamplePlayer(sample, noteNo, volume, pitchBend, channel, tick) ==
  UpdatePitch([ sample |-> sample, noteNo |-> noteNo, channel |-> channel,
                volume |-> volume, gain |-> 0, pitchBend |-> pitchBend,
                pitch |-> PosScale, pos |-> 0, pos_f |-> 0,
                createdAt |-> tick, released |-> FALSE,
                playing |-> (sample # NoSample), adsrState |-> "attack" ])

\* The voice of the pool before any note: SamplePlayer().
IdlePlayer ==
  [ sample |-> NoSample, noteNo |-> 60, channel |-> 0,
    volume |-> GainScale, gain |-> 0, pitchBend |-> 0,
    pitch |-> PosScale, pos |-> 0, pos_f |-> 0,
    createdAt |-> 0, released |-> FALSE,
    playing |-> FALSE, adsrState |-> "attack" ]

\* x < 0.001f, for x on the gain grid.
BelowThreshold(x) == x * 1000 < GainScale

\* One step of the envelope in state q.adsrState (the switch of UpdateGain).
EnvelopeStep(q, sampleRef) ==
  CASE q.adsrState = "attack" ->
         LET gain == q.gain + Scale(sampleRef.attack, q.volume)
         IN IF gain >= q.volume
            THEN [q EXCEPT !.gain = q.volume, !.adsrState = "decay"]
            ELSE [q EXCEPT !.gain = gain]
    [] q.adsrState = "decay" ->
         LET goal == Scale(sampleRef.sustain, q.volume)
             gain == Scale(sampleRef.decay, q.gain - goal) + goal
         IN IF BelowThreshold(gain - goal)
            THEN [q EXCEPT !.gain = goal, !.adsrState = "sustain"]
            ELSE [q EXCEPT !.gain = gain]
    [] q.adsrState = "sustain" -> q
    [] q.adsrState = "release" ->
         LET gain == Scale(sampleRef.release, q.gain)
         IN IF BelowThreshold(gain)
            THEN [q EXCEPT !.gain = 0, !.playing = FALSE]
            ELSE [q EXCEPT !.gain = gain]

\* Mutant: a released voice is not moved to the release state.
UpdateGainHeld(p) ==
  IF p.sample = NoSample THEN p
  ELSE IF ~Samples[p.sample].adsrEnabled THEN [p EXCEPT !.gain = p.volume]
  ELSE EnvelopeStep(p, Samples[p.sample])

\* Mutant: a released voice finishes attack and decay before it is moved to
\* the release state.
UpdateGainLate(p) ==
  IF p.sample = NoSample THEN p
  ELSE IF ~Samples[p.sample].adsrEnabled THEN [p EXCEPT !.gain = p.volume]
  ELSE EnvelopeStep([p EXCEPT !.adsrState =
                       IF p.released /\ p.adsrState = "sustain"
                       THEN "release" ELSE p.adsrState],
                    Samples[p.sample])

\* SamplePlayer::UpdateGain.
UpdateGain(p) ==
  IF p.sample = NoSample THEN p
  ELSE
    LET sampleRef == Samples[p.sample] IN
    IF ~sampleRef.adsrEnabled THEN [p EXCEPT !.gain = p.volume]
    ELSE EnvelopeStep([p EXCEPT !.adsrState = IF p.released THEN "release"
                                              ELSE p.adsrState],
                      sampleRef)

\* The resampling kernel: `length` output samples from integer position s and
\* fraction pos_f at rate pitch.  Each sample reads s[0] and s[1]; maxRead is
\* the highest index read.
RECURSIVE KernelLoop(_, _, _, _, _)
KernelLoop(s, pos_f, pitch, length, maxRead) ==
  LET read == IF s + 1 > maxRead THEN s + 1 ELSE maxRead
      t == pos_f + pitch
      intval == t \div PosScale
      s2 == s + intval
      f2 == t - intval * PosScale
  IN IF length - 1 = 0
     THEN [ src |-> s2, pos_f |-> f2, maxRead |-> read ]
     ELSE KernelLoop(s2, f2, pitch, length - 1, read)

sampler_process_inner(pos, pos_f, pitch, length) ==
  KernelLoop(pos, pos_f, pitch, length, 0)

\* Mutant: the loop length is taken off once.
LoopWrapOnce(pos, loopBack, loopEnd) == pos + loopBack

\* do { pos += loopBack; } while (pos >= loopEnd);
RECURSIVE LoopWrap(_, _, _)
LoopWrap(pos, loopBack, loopEnd) ==
  LET next == (pos + loopBack) % UINT_RANGE
  IN IF next >= loopEnd THEN LoopWrap(next, loopBack, loopEnd) ELSE next

NoWork == [ ran |-> FALSE ]

\* One envelope step of Process for voice p (one turn of the loop over j):
\* the voice afterwards, whether the loop is left, and what the kernel did.
ProcessStep(p) ==
  IF p.sample = NoSample
  THEN [ player |-> p, break |-> TRUE, work |-> NoWork ]
  ELSE
    LET sample == Samples[p.sample]
        p1 == IF sample.adsrEnabled THEN UpdateGain(p) ELSE p
    IN IF ~p1.playing
       THEN [ player |-> p1, break |-> TRUE, work |-> NoWork ]
       ELSE
         LET w == sampler_process_inner(p1.pos, p1.pos_f, p1.pitch,
                                        ADSR_UPDATE_SAMPLE_COUNT)
             loopEnd == IF sample.adsrEnabled THEN sample.loopEnd
                        ELSE sample.length
             loopBack == IF sample.adsrEnabled
                         THEN sample.loopStart - sample.loopEnd ELSE 0
             pos == w.src % UINT_RANGE
             work == [ ran |-> TRUE, gain |-> p1.gain, pos |-> pos,
                       maxRead |-> w.maxRead ]
         IN IF pos >= loopEnd /\ loopBack = 0
            THEN [ player |-> [p1 EXCEPT !.playing = FALSE],
                   break |-> TRUE, work |-> work ]
            ELSE [ player |-> [p1 EXCEPT
                                 !.pos = IF pos >= loopEnd
                                         THEN LoopWrap(pos, loopBack, loopEnd)
                                         ELSE pos,
                                 !.pos_f = w.pos_f],
                   break |-> FALSE, work |-> work ]


(***************************************************************************)
(* State.                                                                  *)
(***************************************************************************)
VARIABLES
  messageQueue,        \* Sampler::messageQueue
  messageQueueMutex,   \* its lock: "free" or the thread that holds it
  playersMutex,        \* the voice-pool lock: "free" or the holder
  players,             \* Sampler::players
  channels,            \* Sampler::channels: timbre, pitchBend, playingNotes
  nextTick,            \* the clock createdAt is read from
  apc,                 \* where the audio thread is in Process
  message,             \* Process's local `message`
  procI, procJ,        \* Process's loop counters i and j
  cpc,                 \* where each control thread is
  call,                \* the public call each control thread is in
  ghost,               \* history: the calls whose message is appended and
                       \*          not yet dispatched, oldest first
  owed,                \* history: messages appended before this Process began
                       \*          and not yet dispatched
  bendRun,             \* history: the channel of the PITCH_BEND messages
                       \*          dispatched last in a row (three at most), and
                       \*          whether the bend of each was 0
  lastStep             \* history: what the last envelope step did

vars == << messageQueue, messageQueueMutex, playersMutex, players, channels,
           nextTick, apc, message, procI, procJ, cpc, call, ghost, owed,
           bendRun, lastStep >>

Producers == { "ctl1", "ctl2" }
Audio == "audio"

NoMessage == [ status |-> "NONE" ]
NoCall == [ op |-> "none" ]
Fault == "fault"
Gone == "gone"
NoRun == [ tracked |-> TRUE, channel |-> 0, zero |-> << >> ]
Untracked == [ tracked |-> FALSE, channel |-> 0, zero |-> << >> ]

\* The state after construction and a SetTimbre(c, timbre) for every channel
\* (timbre = NoTimbre: after construction alone).  run is NoRun, or Untracked
\* where the runs of PITCH_BEND dispatches are not recorded.
InitWith(timbre, run) ==
  /\ messageQueue = << >>
  /\ messageQueueMutex = "free"
  /\ playersMutex = "free"
  /\ players = [ i \in Players |-> IdlePlayer ]
  /\ channels = [ c \in Channels |->
                    [ timbre |-> timbre, pitchBend |-> 0,
                      playingNotes |-> << >> ] ]
  /\ nextTick = 1
  /\ apc = "idle"
  /\ message = NoMessage
  /\ procI = 0
  /\ procJ = 0
  /\ cpc = [ t \in Producers |-> "idle" ]
  /\ call = [ t \in Producers |-> NoCall ]
  /\ ghost = << >>
  /\ owed = 0
  /\ bendRun = run
  /\ lastStep = NoWork

(***************************************************************************)
(* The public calls, made on the control threads.                          *)
(***************************************************************************)

\* Mutant: the channel is not remapped to 0.
NoteMessageNoFallback(status, noteNo, velocity, channel) ==
  [ status |-> status,
    channel |-> channel,
    noteNo |-> noteNo,
    velocity |-> velocity % 128,
    pitchBend |-> 0 ]

\* Mutant: the velocity is not masked.
NoteMessageNoMask(status, noteNo, velocity, channel) ==
  [ status |-> status,
    channel |-> IF channel >= CH_COUNT THEN 0 ELSE channel,
    noteNo |-> noteNo,
    velocity |-> velocity,
    pitchBend |-> 0 ]

\* What Sampler::NoteOn / Sampler::NoteOff enqueue.
NoteMessage(status, noteNo, velocity, channel) ==
  [ status |-> status,
    channel |-> IF channel >= CH_COUNT THEN 0 ELSE channel,
    noteNo |-> noteNo,
    velocity |-> velocity % 128,
    pitchBend |-> 0 ]

\* What Sampler::PitchBend enqueues, for channel < CH_COUNT.
BendMessage(pitchBend, channel) ==
  [ status |-> "PITCH_BEND",
    channel |-> channel,
    noteNo |-> 0,
    velocity |-> 0,
    pitchBend |-> IF pitchBend < -8192 THEN -8192
                  ELSE IF pitchBend > 8191 THEN 8191 ELSE pitchBend ]

CallMessage(c) ==
  IF c.op = "PitchBend" THEN BendMessage(c.pitchBend, c.channel)
  ELSE NoteMessage(IF c.op = "NoteOn" THEN "NOTE_ON" ELSE "NOTE_OFF",
                   c.noteNo, c.velocity, c.channel)

\* NOTE_ON messages on their way: they cap the clock.
NoteOnsAhead ==
  Cardinality({ k \in 1 .. Len(ghost) : ghost[k].op = "NoteOn" })
  + Cardinality({ t \in Producers : call[t].op = "NoteOn" })

\* A fault ends the program: no thread runs on.
Running == apc \notin { Fault, Gone }

\* A control thread enters NoteOn or NoteOff: the arguments are normalised and
\* the queue lock is taken.
SamplerNote(t, op, noteNo, velocity, channel) ==
  /\ Running
  /\ cpc[t] = "idle"
  /\ messageQueueMutex = "free"
  /\ messageQueueMutex' = t
  /\ cpc' = [cpc EXCEPT ![t] = "push"]
  /\ call' = [call EXCEPT ![t] = [ op |-> op, noteNo |-> noteNo,
                                    velocity |-> velocity, channel |-> channel,
                                    pitchBend |-> 0 ]]
  /\ UNCHANGED << messageQueue, playersMutex, players, channels, nextTick,
                  apc, message, procI, procJ, ghost, owed, bendRun, lastStep >>

\* A control thread enters PitchBend: an invalid channel returns at once.
SamplerPitchBend(t, pitchBend, channel) ==
  /\ Running
  /\ cpc[t] = "idle"
  /\ call' = [call EXCEPT ![t] = [ op |-> "PitchBend", noteNo |-> 0,
                                    velocity |-> 0, channel |-> channel,
                                    pitchBend |-> pitchBend ]]
  /\ IF channel >= CH_COUNT
     THEN /\ cpc' = [cpc EXCEPT ![t] = "return"]
          /\ UNCHANGED messageQueueMutex
     ELSE /\ messageQueueMutex = "free"
          /\ messageQueueMutex' = t
          /\ cpc' = [cpc EXCEPT ![t] = "push"]
  /\ UNCHANGED << messageQueue, playersMutex, players, channels, nextTick,
                  apc, message, procI, procJ, ghost, owed, bendRun, lastStep >>

\* messageQueue.push_back(...) and the release of the queue lock.
Push(t) ==
  /\ Running
  /\ cpc[t] = "push"
  /\ messageQueueMutex = t
  /\ messageQueue' = Append(messageQueue, CallMessage(call[t]))
  /\ ghost' = Append(ghost, call[t])
  /\ messageQueueMutex' = "free"
  /\ cpc' = [cpc EXCEPT ![t] = "idle"]
  /\ call' = [call EXCEPT ![t] = NoCall]
  /\ UNCHANGED << playersMutex, players, channels, nextTick, apc, message,
                  procI, procJ, owed, bendRun, lastStep >>

\* The return of a discarded PitchBend.
Return(t) ==
  /\ Running
  /\ cpc[t] = "return"
  /\ cpc' = [cpc EXCEPT ![t] = "idle"]
  /\ call' = [call EXCEPT ![t] = NoCall]
  /\ UNCHANGED << messageQueue, messageQueueMutex, playersMutex, players,
                  channels, nextTick, apc, message, procI, procJ, ghost, owed,
                  bendRun, lastStep >>

\* Sampler::SetTimbre, which writes the channel from the calling thread.
SetTimbre(t, channel, timbre) ==
  /\ Running
  /\ cpc[t] = "idle"
  /\ channels' = IF channel < CH_COUNT
                 THEN [channels EXCEPT ![channel].timbre = timbre]
                 ELSE channels
  /\ UNCHANGED << messageQueue, messageQueueMutex, playersMutex, players,
                  nextTick, apc, message, procI, procJ, cpc, call, ghost,
                  owed, bendRun, lastStep >>


(***************************************************************************)
(* The channel methods, run by the audio thread under the voice-pool lock. *)
(***************************************************************************)

\* Mutant: with every voice playing, the newest voice is taken.
RECURSIVE FindPlayerNewest(_, _, _)
FindPlayerNewest(ps, i, oldestPlayerId) ==
  IF i = MAX_SOUND THEN oldestPlayerId
  ELSE IF ps[i].playing = FALSE THEN i
  ELSE FindPlayerNewest(ps, i + 1,
                        IF ps[i].createdAt > ps[oldestPlayerId].createdAt
                        THEN i ELSE oldestPlayerId)

\* The voice Channel::NoteOn overwrites: the first idle voice of the scan,
\* else the oldest one.
RECURSIVE FindPlayer(_, _, _)
FindPlayer(ps, i, oldestPlayerId) ==
  IF i = MAX_SOUND THEN oldestPlayerId
  ELSE IF ps[i].playing = FALSE THEN i
  ELSE FindPlayer(ps, i + 1,
                  IF ps[i].createdAt < ps[oldestPlayerId].createdAt
                  THEN i ELSE oldestPlayerId)

\* What timbre->GetAppropriateSample(noteNo, velocity) can yield.  With no
\* timbre bound the call dereferences a null pointer: the behaviour is
\* undefined, and the build may fault or read any result.
SampleLookup(timbre, noteNo, velocity) ==
  IF timbre = NoTimbre
  THEN { Fault, NoSample } \cup SampleIds
  ELSE { GetAppropriateSample(timbre, noteNo, velocity) }

\* Mutant: a note-on without a sample returns before it takes a voice.
ChannelNoteOnKeep(ps, chs, ch, noteNo, velocity, sample, tick) ==
  LET id == FindPlayer(ps, 0, 0)
  IN IF sample = NoSample
     THEN [ players |-> ps, channels |-> chs ]
     ELSE [ players |-> [ps EXCEPT ![id] =
                           SamplePlayer(sample, noteNo, velocityTable(velocity),
                                        chs[ch].pitchBend, ch, tick)],
            channels |-> [chs EXCEPT ![ch].playingNotes =
                           Append(@, [ noteNo |-> noteNo, playerId |-> id ])] ]

\* Channel::NoteOn with the sample the lookup gave.
ChannelNoteOn(ps, chs, ch, noteNo, velocity, sample, tick) ==
  LET id == FindPlayer(ps, 0, 0)
  IN [ players |-> [ps EXCEPT ![id] =
                      SamplePlayer(sample, noteNo, velocityTable(velocity),
                                   chs[ch].pitchBend, ch, tick)],
       channels |-> [chs EXCEPT ![ch].playingNotes =
                      Append(@, [ noteNo |-> noteNo, playerId |-> id ])] ]

\* Mutant: the note-off cuts the voice at once.
ChannelNoteOffCut(ps, chs, ch, noteNo) ==
  LET notes == chs[ch].playingNotes
      hit == { notes[k].playerId : k \in { k \in 1 .. Len(notes) :
                                             notes[k].noteNo = noteNo } }
  IN [ players |-> [ i \in Players |->
                      IF /\ i \in hit
                         /\ ps[i].noteNo = noteNo
                         /\ ps[i].channel = ch
                      THEN [ps[i] EXCEPT !.released = TRUE, !.playing = FALSE]
                      ELSE ps[i] ],
       channels |-> [chs EXCEPT ![ch].playingNotes =
                      SelectSeq(notes, LAMBDA n : n.noteNo # noteNo)] ]

\* Mutant: the voice of an entry is released without a look at its note and
\* channel.
ChannelNoteOffStale(ps, chs, ch, noteNo) ==
  LET notes == chs[ch].playingNotes
      hit == { notes[k].playerId : k \in { k \in 1 .. Len(notes) :
                                             notes[k].noteNo = noteNo } }
  IN [ players |-> [ i \in Players |->
                      IF i \in hit
                      THEN [ps[i] EXCEPT !.released = TRUE]
                      ELSE ps[i] ],
       channels |-> [chs EXCEPT ![ch].playingNotes =
                      SelectSeq(notes, LAMBDA n : n.noteNo # noteNo)] ]

\* Channel::NoteOff.
ChannelNoteOff(ps, chs, ch, noteNo) ==
  LET notes == chs[ch].playingNotes
      hit == { notes[k].playerId : k \in { k \in 1 .. Len(notes) :
                                             notes[k].noteNo = noteNo } }
  IN [ players |-> [ i \in Players |->
                      IF /\ i \in hit
                         /\ ps[i].noteNo = noteNo
                         /\ ps[i].channel = ch
                      THEN [ps[i] EXCEPT !.released = TRUE]
                      ELSE ps[i] ],
       channels |-> [chs EXCEPT ![ch].playingNotes =
                      SelectSeq(notes, LAMBDA n : n.noteNo # noteNo)] ]

\* Mutant: the bend is kept for later notes only.
ChannelPitchBendLater(ps, chs, ch) == [ players |-> ps, channels |-> chs ]

\* Channel::PitchBend after the channel's own pitchBend is written.
ChannelPitchBend(ps, chs, ch) ==
  LET notes == chs[ch].playingNotes
      hit == { notes[k].playerId : k \in 1 .. Len(notes) }
  IN [ players |-> [ i \in Players |->
                      IF i \in hit /\ ps[i].channel = ch
                      THEN UpdatePitch([ps[i] EXCEPT
                                          !.pitchBend = chs[ch].pitchBend])
                      ELSE ps[i] ],
       channels |-> chs ]

(***************************************************************************)
(* Sampler::Process, on the audio thread.                                  *)
(***************************************************************************)

\* Process is called: the queue lock is taken.
ProcessBegin ==
  /\ apc = "idle"
  /\ messageQueueMutex = "free"
  /\ messageQueueMutex' = Audio
  /\ apc' = "drain"
  /\ owed' = Len(ghost)
  /\ UNCHANGED << messageQueue, playersMutex, players, channels, nextTick,
                  message, procI, procJ, cpc, call, ghost, bendRun, lastStep >>

\* Mutant: the newest message is popped, not the oldest.
DrainPopBack ==
  /\ apc = "drain"
  /\ messageQueue # << >>
  /\ message' = messageQueue[Len(messageQueue)]
  /\ messageQueue' = SubSeq(messageQueue, 1, Len(messageQueue) - 1)
  /\ messageQueueMutex' = "free"
  /\ apc' = "dispatch"
  /\ UNCHANGED << playersMutex, players, channels, nextTick, procI, procJ,
                  cpc, call, ghost, owed, bendRun, lastStep >>

\* Mutant: the queue lock is kept over the dispatch.
DrainPopHold ==
  /\ apc = "drain"
  /\ messageQueue # << >>
  /\ message' = Head(messageQueue)
  /\ messageQueue' = Tail(messageQueue)
  /\ apc' = "dispatch"
  /\ UNCHANGED << messageQueueMutex, playersMutex, players, channels,
                  nextTick, procI, procJ, cpc, call, ghost, owed, bendRun,
                  lastStep >>

\* One message is popped under the queue lock, which is then released.
DrainPop ==
  /\ apc = "drain"
  /\ messageQueue # << >>
  /\ message' = Head(messageQueue)
  /\ messageQueue' = Tail(messageQueue)
  /\ messageQueueMutex' = "free"
  /\ apc' = "dispatch"
  /\ UNCHANGED << playersMutex, players, channels, nextTick, procI, procJ,
                  cpc, call, ghost, owed, bendRun, lastStep >>

\* The channel method is entered: PitchBend stores the channel's bend, then
\* each method takes the voice-pool lock.
ChannelEnter ==
  /\ apc = "dispatch"
  /\ playersMutex = "free"
  /\ channels' = IF message.status = "PITCH_BEND"
                 THEN [channels EXCEPT
                         ![message.channel].pitchBend = message.pitchBend * 12]
                 ELSE channels
  /\ playersMutex' = Audio
  /\ apc' = "body"
  /\ UNCHANGED << messageQueue, messageQueueMutex, players, nextTick, message,
                  procI, procJ, cpc, call, ghost, owed, bendRun, lastStep >>

\* The run of PITCH_BEND dispatches after message m.
BendRunAfter(run, m) ==
  IF ~run.tracked THEN Untracked
  ELSE IF m.status # "PITCH_BEND" THEN NoRun
  ELSE LET before == IF run.channel = m.channel THEN run.zero ELSE << >>
           all == Append(before, m.pitchBend = 0)
       IN [ tracked |-> TRUE, channel |-> m.channel,
            zero |-> IF Len(all) > 3 THEN Tail(all) ELSE all ]

\* The message is now dispatched.
Dispatched(r) ==
  /\ players' = r.players
  /\ channels' = r.channels
  /\ playersMutex' = "free"
  /\ message' = NoMessage
  /\ ghost' = Tail(ghost)
  /\ owed' = IF owed > 0 THEN owed - 1 ELSE 0
  /\ bendRun' = BendRunAfter(bendRun, message)
  /\ apc' = "relock"

NoteOnBody ==
  /\ apc = "body"
  /\ message.status = "NOTE_ON"
  /\ \E s \in SampleLookup(channels[message.channel].timbre,
                           message.noteNo, message.velocity) :
       IF s = Fault
       THEN /\ apc' = Fault
            /\ UNCHANGED << players, channels, playersMutex, message, ghost,
                            owed, bendRun, nextTick >>
       ELSE /\ Dispatched(ChannelNoteOn(players, channels, message.channel,
                                        message.noteNo, message.velocity, s,
                                        nextTick))
            /\ nextTick' = nextTick + 1
  /\ UNCHANGED << messageQueue, messageQueueMutex, procI, procJ, cpc, call,
                  lastStep >>

NoteOffBody ==
  /\ apc = "body"
  /\ message.status = "NOTE_OFF"
  /\ Dispatched(ChannelNoteOff(players, channels, message.channel,
                               message.noteNo))
  /\ UNCHANGED << messageQueue, messageQueueMutex, nextTick, procI, procJ,
                  cpc, call, lastStep >>

PitchBendBody ==
  /\ apc = "body"
  /\ message.status = "PITCH_BEND"
  /\ Dispatched(ChannelPitchBend(players, channels, message.channel))
  /\ UNCHANGED << messageQueue, messageQueueMutex, nextTick, procI, procJ,
                  cpc, call, lastStep >>

\* The queue lock is taken again for the next turn of the drain loop.
Relock ==
  /\ apc = "relock"
  /\ messageQueueMutex = "free"
  /\ messageQueueMutex' = Audio
  /\ apc' = "drain"
  /\ UNCHANGED << messageQueue, playersMutex, players, channels, nextTick,
                  message, procI, procJ, cpc, call, ghost, owed, bendRun, lastStep >>

\* The queue is empty: its lock is released and the mix bus cleared.
DrainEnd ==
  /\ apc = "drain"
  /\ messageQueue = << >>
  /\ messageQueueMutex' = "free"
  /\ apc' = "mixlock"
  /\ UNCHANGED << messageQueue, playersMutex, players, channels, nextTick,
                  message, procI, procJ, cpc, call, ghost, owed, bendRun, lastStep >>

\* The voice-pool lock is taken for the mixing pass.
MixBegin ==
  /\ apc = "mixlock"
  /\ playersMutex = "free"
  /\ playersMutex' = Audio
  /\ apc' = "mix"
  /\ procI' = 0
  /\ procJ' = 0
  /\ UNCHANGED << messageQueue, messageQueueMutex, players, channels,
                  nextTick, message, cpc, call, ghost, owed, bendRun, lastStep >>

\* A voice that is not playing is passed over.
MixSkip ==
  /\ apc = "mix"
  /\ procI < MAX_SOUND
  /\ procJ = 0
  /\ players[procI].playing = FALSE
  /\ procI' = procI + 1
  /\ lastStep' = NoWork
  /\ UNCHANGED << messageQueue, messageQueueMutex, playersMutex, players,
                  channels, nextTick, apc, message, procJ, cpc, call, ghost,
                  owed, bendRun >>

\* One envelope step of the voice procI.
MixStep ==
  /\ apc = "mix"
  /\ procI < MAX_SOUND
  /\ procJ > 0 \/ players[procI].playing
  /\ LET r == ProcessStep(players[procI])
     IN /\ players' = [players EXCEPT ![procI] = r.player]
        /\ lastStep' = [ player |-> procI ] @@ r.work
        /\ IF r.break \/ procJ + 1 = SAMPLE_BUFFER_SIZE \div ADSR_UPDATE_SAMPLE_COUNT
           THEN procI' = procI + 1 /\ procJ' = 0
           ELSE procJ' = procJ + 1 /\ UNCHANGED procI
  /\ UNCHANGED << messageQueue, messageQueueMutex, playersMutex, channels,
                  nextTick, apc, message, cpc, call, ghost, owed, bendRun >>

\* The pass is over: the voice-pool lock is released, the effect runs and the
\* buffer is written.
MixEnd ==
  /\ apc = "mix"
  /\ procI = MAX_SOUND
  /\ playersMutex' = "free"
  /\ apc' = "idle"
  /\ procI' = 0
  /\ lastStep' = NoWork
  /\ UNCHANGED << messageQueue, messageQueueMutex, players, channels,
                  nextTick, message, procJ, cpc, call, ghost, owed, bendRun >>

(***************************************************************************)
(* Specifications.                                                         *)
(***************************************************************************)
\* A scenario names the control threads that call, the calls they make, the
\* timbres they bind, and the most messages (queue) and note-ons (noteOns) they
\* leave waiting or make: a call that would pass these bounds is not made.
Control(t, in) ==
  \/ /\ Len(ghost) < in.queue
     /\ nextTick + NoteOnsAhead <= in.noteOns
     /\ \E c \in in.calls :
          /\ c.op = "NoteOn"
          /\ SamplerNote(t, c.op, c.noteNo, c.velocity, c.channel)
  \/ /\ Len(ghost) < in.queue
     /\ \E c \in in.calls :
          /\ c.op = "NoteOff"
          /\ SamplerNote(t, c.op, c.noteNo, c.velocity, c.channel)
  \/ /\ Len(ghost) < in.queue
     /\ \E c \in in.calls :
          /\ c.op = "PitchBend"
          /\ SamplerPitchBend(t, c.pitchBend, c.channel)
  \/ \E c \in in.timbres : SetTimbre(t, c[1], c[2])
  \/ Push(t)
  \/ Return(t)

\* The calls, as a scenario lists them.
On(noteNo, velocity, channel) ==
  [ op |-> "NoteOn", noteNo |-> noteNo, velocity |-> velocity,
    channel |-> channel, pitchBend |-> 0 ]
Off(noteNo, velocity, channel) ==
  [ op |-> "NoteOff", noteNo |-> noteNo, velocity |-> velocity,
    channel |-> channel, pitchBend |-> 0 ]
Bend(pitchBend, channel) ==
  [ op |-> "PitchBend", noteNo |-> 0, velocity |-> 0, channel |-> channel,
    pitchBend |-> pitchBend ]

Process ==
  \/ ProcessBegin
  \/ DrainPop
  \/ ChannelEnter
  \/ NoteOnBody
  \/ NoteOffBody
  \/ PitchBendBody
  \/ Relock
  \/ DrainEnd
  \/ MixBegin
  \/ MixSkip
  \/ MixStep
  \/ MixEnd

Step(in) ==
  \/ \E t \in in.threads : Control(t, in)
  \/ Process


(***************************************************************************)
(* The queue: two control threads that pass malformed arguments.           *)
(***************************************************************************)
Queue ==
  [ threads |-> { "ctl1", "ctl2" },
    calls |-> { On(60, 128, CH_COUNT), On(200, 227, 255),
                Off(200, 128, 255), Off(60, 100, 1),
                Bend(32767, 1), Bend(-20000, CH_COUNT) },
    timbres |-> { <<0, "keys">> },
    queue |-> MaxQueue,
    noteOns |-> 2 ]

NextQueue == Step(Queue)
SpecQueue == InitWith("keys", Untracked) /\ [][NextQueue]_vars

\* The messages popped and not yet dispatched, then those waiting.
Pending ==
  (IF message = NoMessage THEN << >> ELSE << message >>) \o messageQueue

IsNote(c) == c.op \in { "NoteOn", "NoteOff" }

\* C1: a NoteOn or NoteOff with channel >= CH_COUNT appends exactly one
\* message, whose channel is 0; a PitchBend with channel >= CH_COUNT appends
\* nothing and leaves the queue, the channels and the voices as they were; no
\* message in the queue has a channel >= CH_COUNT.
C1_InvalidChannel ==
  /\ [] /\ Len(Pending) = Len(ghost)
        /\ \A k \in 1 .. Len(ghost) :
             /\ Pending[k].channel < CH_COUNT
             /\ IsNote(ghost[k]) /\ ghost[k].channel >= CH_COUNT
                  => Pending[k].channel = 0
             /\ ghost[k].op = "PitchBend" => ghost[k].channel < CH_COUNT
  /\ [][ \A t \in Producers :
           /\ cpc'[t] # cpc[t]
           /\ \/ call'[t].op = "PitchBend" /\ call'[t].channel >= CH_COUNT
              \/ call[t].op = "PitchBend" /\ call[t].channel >= CH_COUNT
           => UNCHANGED << messageQueue, channels, players >> ]_vars

\* C1 witness: a note call with an invalid channel has its message (channel 0)
\* in the queue while a PitchBend with an invalid channel is being discarded.
C1_Witness ==
  /\ \E k \in 1 .. Len(ghost) :
       /\ IsNote(ghost[k]) /\ ghost[k].channel >= CH_COUNT
       /\ Len(Pending) >= k /\ Pending[k].channel = 0
  /\ \E t \in Producers :
       cpc[t] = "return" /\ call[t].op = "PitchBend"
         /\ call[t].channel >= CH_COUNT

\* C2 as claimed: every NOTE_ON and NOTE_OFF message in the queue has velocity
\* and noteNo in 0..127.
C2_SevenBitNoteAndVelocity ==
  \A k \in 1 .. Len(Pending) :
    Pending[k].status \in { "NOTE_ON", "NOTE_OFF" }
      => Pending[k].velocity \in 0 .. 127 /\ Pending[k].noteNo \in 0 .. 127

\* C2 amended: every NOTE_ON and NOTE_OFF message in the queue has velocity in
\* 0..127, the velocity passed with bit 7 cleared, and the noteNo passed,
\* unmasked (0..255).
C2_VelocityMasked ==
  /\ Len(Pending) = Len(ghost)
  /\ \A k \in 1 .. Len(ghost) :
       IsNote(ghost[k]) =>
         /\ Pending[k].status \in { "NOTE_ON", "NOTE_OFF" }
         /\ Pending[k].velocity \in 0 .. 127
         /\ Pending[k].velocity =
              IF ghost[k].velocity >= 128 THEN ghost[k].velocity - 128
              ELSE ghost[k].velocity
         /\ Pending[k].noteNo = ghost[k].noteNo
         /\ Pending[k].noteNo \in 0 .. 255

\* C2 witness: NoteOn(200, 227, 255) is in the queue as note 200, velocity 99.
C2_Witness ==
  \E k \in 1 .. Len(ghost) :
    /\ ghost[k] = On(200, 227, 255)
    /\ Len(Pending) >= k
    /\ Pending[k].noteNo = 200 /\ Pending[k].velocity = 99

\* C3: the messages are dispatched in the order of their appends, each once,
\* also when the control threads append during the drain; a message appended
\* before Process began is dispatched before the mixing pass of that Process.
C3_FifoOnce ==
  /\ Pending = [ k \in 1 .. Len(ghost) |-> CallMessage(ghost[k]) ]
  /\ apc \in { "mixlock", "mix" } => owed = 0
  /\ owed <= Len(ghost)

\* C3 witness: a message has just been dispatched, the messages appended
\* before Process began are all dispatched, and two more, appended during the
\* drain, wait.
C3_Witness ==
  /\ apc = "relock"
  /\ owed = 0
  /\ Len(messageQueue) = 2
  /\ messageQueue[1] # messageQueue[2]


(***************************************************************************)
(* The voices: one control thread that plays a one-shot sample.            *)
(***************************************************************************)
OneShot ==
  [ threads |-> { "ctl1" },
    calls |-> { On(60, 100, 0), On(40, 100, 0), Off(60, 100, 0),
                Bend(0, 0), Bend(0, CH_COUNT) },
    timbres |-> { <<0, "keys">> },
    queue |-> MaxQueue,
    noteOns |-> MaxNoteOns ]

Next == Step(OneShot)
Spec == InitWith("keys", Untracked) /\ [][Next]_vars

\* No timbre is bound: after construction, or after SetTimbre with an absent
\* timbre.
Unbound ==
  [ threads |-> { "ctl1" },
    calls |-> { On(60, 100, 0), Off(60, 100, 0),
                Bend(0, 0), Bend(0, CH_COUNT) },
    timbres |-> { <<0, NoTimbre>> },
    queue |-> 1,
    noteOns |-> 2 ]

NextUnbound == Step(Unbound)
SpecUnbound == InitWith(NoTimbre, Untracked) /\ [][NextUnbound]_vars

\* The audio thread leaves the body of the channel method of a NOTE_ON.
NoteOnDispatch ==
  apc = "body" /\ apc' # "body" /\ message.status = "NOTE_ON"

\* C4 as claimed: a NOTE_ON dispatched to a channel with no timbre completes
\* without fault: no voice starts playing, no playing voice is changed, and
\* the voice-pool lock is free afterwards.
C4_UnboundNoteOnIsSafe ==
  [][ NoteOnDispatch /\ channels[message.channel].timbre = NoTimbre
      => /\ apc' # Fault
         /\ playersMutex' = "free"
         /\ \A i \in Players :
              IF players[i].playing THEN players'[i] = players[i]
              ELSE ~players'[i].playing ]_vars

\* C5 as claimed: a NOTE_ON that matches no region of the channel's timbre
\* leaves every voice that was playing still playing, with the same sample,
\* noteNo, channel and envelope state.
C5_UnmatchedNoteOnIgnored ==
  [][ /\ NoteOnDispatch
      /\ channels[message.channel].timbre # NoTimbre
      /\ GetAppropriateSample(channels[message.channel].timbre,
                              message.noteNo, message.velocity) = NoSample
      => \A i \in Players :
           players[i].playing =>
             /\ players'[i].playing
             /\ players'[i].sample = players[i].sample
             /\ players'[i].noteNo = players[i].noteNo
             /\ players'[i].channel = players[i].channel
             /\ players'[i].adsrState = players[i].adsrState
             /\ players'[i].gain = players[i].gain
             /\ players'[i].released = players[i].released ]_vars

NonAdsr(p) == p.sample # NoSample /\ ~Samples[p.sample].adsrEnabled

\* The audio thread takes an envelope step in which the kernel runs.
KernelStep ==
  apc = "mix" /\ (procI' # procI \/ procJ' # procJ) /\ lastStep'.ran

\* C7 as claimed: the gain of every envelope step of a voice whose sample has
\* adsrEnabled = false is the voice's volume.
C7_InertGainIsVolume ==
  lastStep.ran /\ NonAdsr(players[lastStep.player])
    => lastStep.gain = players[lastStep.player].volume

\* C8: a voice whose sample has adsrEnabled = false stops playing only when
\* an envelope step leaves its position at or past the sample's length, or
\* when a note-on overwrites it; a NoteOff leaves it playing; it stops at the
\* first such step, and the kernel runs on playing voices only.
C8_OneShotEndsAtSampleEnd ==
  /\ [] ( lastStep.ran /\ NonAdsr(players[lastStep.player])
            => ( players[lastStep.player].playing
                   <=> lastStep.pos
                         < Samples[players[lastStep.player].sample].length ) )
  /\ [][ \A i \in Players :
           NonAdsr(players[i]) /\ players[i].playing /\ ~players'[i].playing
             => \/ players'[i].createdAt # players[i].createdAt
                \/ /\ KernelStep
                   /\ lastStep'.player = i
                   /\ lastStep'.pos >= Samples[players[i].sample].length ]_vars
  /\ [][ apc = "body" /\ apc' # "body" /\ message.status = "NOTE_OFF"
           => \A i \in Players :
                NonAdsr(players[i]) =>
                  players'[i] = [players[i] EXCEPT !.released = players'[i].released] ]_vars
  /\ [][ KernelStep => players[lastStep'.player].playing ]_vars

\* C8 witness: a one-shot voice that had its NoteOff played on and is stopped
\* by the step that takes it past the end of its sample.
C8_Witness ==
  /\ lastStep.ran
  /\ NonAdsr(players[lastStep.player])
  /\ players[lastStep.player].released
  /\ players[lastStep.player].pos > 0
  /\ ~players[lastStep.player].playing
  /\ lastStep.pos >= Samples[players[lastStep.player].sample].length


(***************************************************************************)
(* Pitch bend: the last PITCH_BEND messages dispatched are tracked.        *)
(***************************************************************************)
Bends ==
  [ threads |-> { "ctl1" },
    calls |-> { On(72, 100, 0), Off(72, 100, 0),
                Bend(0, 0), Bend(4096, 0), Bend(0, CH_COUNT) },
    timbres |-> { <<0, "keys">> },
    queue |-> 1,
    noteOns |-> 1 ]

NextBends == Step(Bends)
SpecBends == InitWith("keys", NoRun) /\ [][NextBends]_vars

\* C6 as claimed: after PitchBend(0, ch), PitchBend(x, ch), PitchBend(0, ch)
\* are dispatched in that order, every playing voice of ch has pitchBend 0
\* and pitch 2^((noteNo - root)/12), released voices included.
C6_BendRoundTrip ==
  /\ bendRun.tracked
  /\ Len(bendRun.zero) = 3
  /\ bendRun.zero[1]
  /\ bendRun.zero[3]
  => \A i \in Players :
       players[i].playing /\ players[i].channel = bendRun.channel
         => /\ players[i].pitchBend = 0
            /\ players[i].pitch
                 = Pow2Fixed((players[i].noteNo
                                - Samples[players[i].sample].root) * 8192)

(***************************************************************************)
(* Loops: an ADSR sample with a loop, at pitches up to four times the     *)
(* root's.                                                                 *)
(***************************************************************************)
Loops ==
  [ threads |-> { "ctl1" },
    calls |-> { On(72, 100, 0), On(84, 100, 0), Off(84, 100, 0),
                Bend(8191, 0), Bend(0, CH_COUNT) },
    timbres |-> { <<0, "keys">> },
    queue |-> 1,
    noteOns |-> 2 ]

NextLoops == Step(Loops)

SpecLoops == InitWith("keys", Untracked) /\ [][NextLoops]_vars

Looped(p) ==
  /\ p.sample # NoSample
  /\ Samples[p.sample].adsrEnabled
  /\ Samples[p.sample].loopStart < Samples[p.sample].loopEnd

\* C9: a playing voice of an ADSR sample with loopStart < loopEnd that is
\* neither released nor stolen stays playing; its stored pos is below loopEnd
\* after every envelope step, and at or above loopStart from its first wrap
\* on, however far past loopEnd one kernel call goes.
C9_LoopKeepsVoicePlaying ==
  /\ [] ( \A i \in Players :
            Looped(players[i]) /\ players[i].playing /\ ~players[i].released
              => players[i].pos < Samples[players[i].sample].loopEnd )
  /\ [] ( /\ lastStep.ran
          /\ Looped(players[lastStep.player])
          /\ ~players[lastStep.player].released
          /\ lastStep.pos >= Samples[players[lastStep.player].sample].loopEnd
          => /\ players[lastStep.player].playing
             /\ players[lastStep.player].pos
                  >= Samples[players[lastStep.player].sample].loopStart )
  /\ [][ \A i \in Players :
           /\ Looped(players[i]) /\ players[i].playing /\ ~players[i].released
           /\ players'[i].createdAt = players[i].createdAt
           /\ ~players'[i].released
           => /\ players'[i].playing
              /\ players[i].pos >= Samples[players[i].sample].loopStart
                   => players'[i].pos >= Samples[players[i].sample].loopStart
       ]_vars

\* C9 witness: a step went past loopEnd by more than the length of the loop
\* and the voice plays on inside the loop.
C9_Witness ==
  /\ lastStep.ran
  /\ Looped(players[lastStep.player])
  /\ players[lastStep.player].playing
  /\ ~players[lastStep.player].released
  /\ lastStep.pos - Samples[players[lastStep.player].sample].loopEnd
       > Samples[players[lastStep.player].sample].loopEnd
           - Samples[players[lastStep.player].sample].loopStart
  /\ players[lastStep.player].pos
       >= Samples[players[lastStep.player].sample].loopStart
  /\ players[lastStep.player].pos
       < Samples[players[lastStep.player].sample].loopEnd

(***************************************************************************)
(* Release: a note and its NoteOff, and an audio thread that is scheduled  *)
(* again and again.                                                        *)
(***************************************************************************)
Release ==
  [ threads |-> { "ctl1" },
    calls |-> { On(72, 100, 0), Off(72, 100, 0),
                Bend(0, 0), Bend(0, CH_COUNT) },
    timbres |-> { <<0, "keys">> },
    queue |-> 1,
    noteOns |-> 2 ]

NextRelease == Step(Release)

\* The audio thread gets each lock it waits for, and a control thread that
\* holds the queue lock appends and lets go of it.
SpecRelease ==
  /\ InitWith("keys", Untracked)
  /\ [][NextRelease]_vars
  /\ SF_vars(Process)
  /\ \A t \in Release.threads : WF_vars(Push(t))

Releasing(i) ==
  /\ players[i].sample # NoSample
  /\ Samples[players[i].sample].adsrEnabled
  /\ players[i].playing
  /\ players[i].released

\* C10: a playing voice of an ADSR sample (release coefficient below 1) that
\* a NoteOff has released stops playing, or is allocated anew, within
\* finitely many calls of Process: if Process returns (MixEnd) again and
\* again, the voice does not stay released and playing.
C10_ReleasedVoiceEnds ==
  \A i \in Players :
    []<><<MixEnd>>_vars => (Releasing(i) ~> ~Releasing(i))

\* C10 witness: a released voice of an ADSR sample that sounded and has been
\* stopped by its envelope.
C10_Witness ==
  \E i \in Players :
    /\ players[i].sample # NoSample
    /\ Samples[players[i].sample].adsrEnabled
    /\ players[i].released
    /\ ~players[i].playing
    /\ players[i].adsrState = "release"
    /\ players[i].gain = 0
    /\ players[i].pos > 0


(***************************************************************************)
(* The sampler is gone: the owner lets go of the Sampler while a Channel   *)
(* is still called, and sampler.lock() yields no Sampler from then on.     *)
(***************************************************************************)

\* The last reference to the Sampler is dropped, no thread being inside it.
Expire ==
  /\ apc = "idle"
  /\ \A t \in Producers : cpc[t] = "idle"
  /\ apc' = Gone
  /\ UNCHANGED << messageQueue, messageQueueMutex, playersMutex, players,
                  channels, nextTick, message, procI, procJ, cpc, call, ghost,
                  owed, bendRun, lastStep >>

\* Channel::NoteOn and Channel::NoteOff without a sampler: the return after
\* sampler.lock().
GoneNote(ch, noteNo, velocity) ==
  /\ apc = Gone
  /\ UNCHANGED vars

\* Channel::PitchBend without a sampler: pitchBend is stored, then the return
\* after sampler.lock().
GonePitchBend(ch, b) ==
  /\ apc = Gone
  /\ channels' = [channels EXCEPT ![ch].pitchBend = b * 12]
  /\ UNCHANGED << messageQueue, messageQueueMutex, playersMutex, players,
                  nextTick, apc, message, procI, procJ, cpc, call, ghost,
                  owed, bendRun, lastStep >>

Orphan ==
  [ threads |-> { "ctl1" },
    calls |-> { On(72, 100, 0), Off(72, 100, 0),
                Bend(4096, 0), Bend(0, CH_COUNT) },
    timbres |-> { <<0, "keys">> },
    queue |-> 1,
    noteOns |-> 2 ]

NextOrphan ==
  \/ Step(Orphan)
  \/ Expire
  \/ \E ch \in Channels : GoneNote(ch, 72, 100)
  \/ \E ch \in Channels, b \in { 0, 4096 } : GonePitchBend(ch, b)

SpecOrphan == InitWith("keys", Untracked) /\ [][NextOrphan]_vars

\* C11 as claimed: a channel method that runs when the sampler is gone leaves
\* the channel's pitchBend, timbre and playingNotes and every voice as they
\* were.
C11_GoneIsNoOp ==
  [][ apc = Gone => channels' = channels /\ players' = players ]_vars


(***************************************************************************)
(* Timbres are bound while notes play.                                     *)
(***************************************************************************)
Rebind ==
  [ threads |-> { "ctl1" },
    calls |-> { On(60, 100, 0), Off(60, 100, 0),
                Bend(0, 0), Bend(0, CH_COUNT) },
    timbres |-> { <<0, "keys">>, <<0, "pads">> },
    queue |-> 1,
    noteOns |-> 2 ]

NextRebind == Step(Rebind)
SpecRebind == InitWith("keys", Untracked) /\ [][NextRebind]_vars

\* The audio thread is in a channel method, or about to enter one, and moves.
AudioDispatchStep == apc \in { "dispatch", "body" } /\ apc' # apc

\* C12 as claimed: every write to a channel's timbre, pitchBend or
\* playingNotes is a step of the audio thread dispatching a message; no step
\* of a control thread changes a channel.
C12_ChannelsWrittenByAudioOnly ==
  [][ channels' # channels => AudioDispatchStep ]_vars


(***************************************************************************)
(* Allocation and note-off, over the one-shot notes (Spec).                *)
(***************************************************************************)

\* The voice the allocator is to take: the lowest idle index, else the
\* smallest createdAt, the lowest index among equals.
Allocated(ps) ==
  IF \E i \in Players : ~ps[i].playing
  THEN CHOOSE i \in Players :
         ~ps[i].playing /\ \A j \in Players : ~ps[j].playing => i <= j
  ELSE CHOOSE i \in Players :
         \A j \in Players :
           \/ ps[i].createdAt < ps[j].createdAt
           \/ ps[i].createdAt = ps[j].createdAt /\ i <= j

\* C13: a NOTE_ON dispatch overwrites exactly one voice, the lowest idle
\* index or, with every voice playing, the one with the smallest createdAt
\* (lowest index among ties); every other voice is unchanged and (noteNo,
\* index) is appended to the channel's playingNotes.
C13_AllocatorPicksIdleElseOldest ==
  [][ NoteOnDispatch /\ apc' # Fault
      => LET id == Allocated(players)
             ch == message.channel
         IN /\ players'[id].createdAt = nextTick
            /\ players'[id].noteNo = message.noteNo
            /\ players'[id].channel = ch
            /\ players'[id].pos = 0
            /\ ~players'[id].released
            /\ \A j \in Players \ { id } : players'[j] = players[j]
            /\ channels'[ch].playingNotes
                 = Append(channels[ch].playingNotes,
                          [ noteNo |-> message.noteNo, playerId |-> id ])
            /\ \A c \in Channels \ { ch } : channels'[c] = channels[c] ]_vars

\* C13 witness: before any mixing, voice 0 holds the third allocation and
\* voice 1, playing, the second: the third note-on found both voices playing
\* and took the oldest.
C13_Witness ==
  /\ ~lastStep.ran
  /\ players[0].createdAt = 3
  /\ players[1].createdAt = 2
  /\ players[1].playing
  /\ Len(channels[0].playingNotes) = 3


Steal ==
  [ threads |-> { "ctl1" },
    calls |-> { On(60, 100, 0), On(60, 100, 1), Off(60, 100, 0),
                Bend(4096, 1), Bend(0, CH_COUNT) },
    timbres |-> { <<0, "keys">> },
    queue |-> MaxQueue,
    noteOns |-> MaxNoteOns ]

NextSteal == Step(Steal)
SpecSteal == InitWith("keys", Untracked) /\ [][NextSteal]_vars

\* The audio thread leaves the body of the channel method of a NOTE_OFF.
NoteOffDispatch ==
  apc = "body" /\ apc' # "body" /\ message.status = "NOTE_OFF"

\* The entries of channel c for note n, as voice indices.
Entries(c, n) ==
  { channels[c].playingNotes[k].playerId :
      k \in { k \in 1 .. Len(channels[c].playingNotes) :
                channels[c].playingNotes[k].noteNo = n } }

\* C15: a NOTE_OFF for note n on channel c changes a voice only by setting
\* released, and only a voice that an entry (n, voice) of c names and that
\* still has noteNo n and channel c; a voice that was allocated anew to
\* another note or channel since the entry was recorded is left as it is.
C15_NoteOffSparesStolenVoices ==
  [][ NoteOffDispatch
      => \A i \in Players :
           IF /\ i \in Entries(message.channel, message.noteNo)
              /\ players[i].noteNo = message.noteNo
              /\ players[i].channel = message.channel
           THEN players'[i] = [players[i] EXCEPT !.released = TRUE]
           ELSE players'[i] = players[i] ]_vars

\* C15 witness: a NOTE_OFF walks an entry whose voice has since been taken
\* by a note of the other channel and plays there, not released.
C15_Witness ==
  /\ apc = "body"
  /\ message.status = "NOTE_OFF"
  /\ \E i \in Entries(message.channel, message.noteNo) :
       /\ players[i].channel # message.channel
       /\ players[i].playing
       /\ ~players[i].released


(***************************************************************************)
(* The envelope of released voices, over the looped notes (SpecLoops).     *)
(***************************************************************************)
Adsr(p) == p.sample # NoSample /\ Samples[p.sample].adsrEnabled

\* The audio thread passes the envelope step of voice i (the kernel may or
\* may not run).
EnvelopeStepOf(i) ==
  /\ apc = "mix"
  /\ procI = i
  /\ procI' # procI \/ procJ' # procJ
  /\ procJ > 0 \/ players[i].playing

\* C16: every envelope step of a released voice with an ADSR sample leaves
\* it in the release state, whatever state it was in; and a voice in the
\* release state stays there until it is allocated anew.
C16_ReleasedVoiceRunsRelease ==
  /\ [][ \A i \in Players :
           EnvelopeStepOf(i) /\ Adsr(players[i]) /\ players[i].released
             => players'[i].adsrState = "release" ]_vars
  /\ [][ \A i \in Players :
           /\ Adsr(players[i])
           /\ players[i].adsrState = "release"
           /\ players'[i].createdAt = players[i].createdAt
           => players'[i].adsrState = "release" ]_vars

\* C16 witness: a released voice that plays inside its loop is in the
\* release state, still sounding.
C16_Witness ==
  \E i \in Players :
    /\ Adsr(players[i])
    /\ players[i].released
    /\ players[i].playing
    /\ players[i].adsrState = "release"
    /\ players[i].gain > 0
    /\ players[i].pos >= Samples[players[i].sample].loopStart


(***************************************************************************)
(* The reads of the kernel, over the one-shot notes (Spec).                *)
(***************************************************************************)

\* C17 as claimed: the highest index an envelope step reads from the sample
\* data of its voice is at most the sample's length (the one guard sample).
C17_KernelReadsWithinGuard ==
  lastStep.ran
    => lastStep.maxRead <= Samples[players[lastStep.player].sample].length

\* C20 as claimed: no channel's playingNotes holds more than MAX_SOUND
\* entries.
C20_PlayingNotesBounded ==
  \A c \in Channels : Len(channels[c].playingNotes) <= MAX_SOUND


(***************************************************************************)
(* The two locks, over the calls of two control threads (SpecQueue).       *)
(***************************************************************************)
Holders == { "free", Audio } \cup Producers

\* C18: the audio thread never holds the queue lock while it holds the
\* voice-pool lock or dispatches; each lock has one holder at most and is
\* taken only when free; a thread that is back from its call, and the audio
\* thread back from Process, holds no lock; and whoever holds a lock can take
\* its next step (short of a fault), so no two threads wait for each other.
C18_LockDiscipline ==
  /\ [] ( playersMutex = Audio => messageQueueMutex # Audio )
  /\ [] ( apc \in { "dispatch", "body" } => messageQueueMutex # Audio )
  /\ [] ( messageQueueMutex \in Holders /\ playersMutex \in { "free", Audio } )
  /\ [][ /\ messageQueueMutex' # messageQueueMutex
           => messageQueueMutex = "free" \/ messageQueueMutex' = "free"
         /\ playersMutex' # playersMutex
           => playersMutex = "free" \/ playersMutex' = "free" ]_vars
  /\ [] ( \A t \in Producers : cpc[t] = "idle" => messageQueueMutex # t )
  /\ [] ( apc = "idle" => messageQueueMutex # Audio /\ playersMutex # Audio )
  /\ [] ( \A t \in Producers :
           apc # Fault /\ messageQueueMutex = t => ENABLED Push(t) )
  /\ [] ( apc # Fault /\ (messageQueueMutex = Audio \/ playersMutex = Audio)
           => ENABLED Process )

\* C18 witness: the audio thread is inside a channel method with the
\* voice-pool lock while a control thread holds the queue lock to append.
C18_Witness ==
  /\ apc = "body"
  /\ playersMutex = Audio
  /\ messageQueueMutex = "ctl1"
  /\ cpc["ctl1"] = "push"


(***************************************************************************)
(* Voices follow the bend of their channel (SpecSteal).                    *)
(***************************************************************************)

\* C19: outside the body of a channel method, every playing voice that is
\* not released has the pitchBend of the channel in its channel field, and
\* that channel's playingNotes holds an entry for it.
C19_VoicesFollowChannelBend ==
  apc # "body"
    => \A i \in Players :
         players[i].playing /\ ~players[i].released
           => /\ players[i].pitchBend = channels[players[i].channel].pitchBend
              /\ i \in Entries(players[i].channel, players[i].noteNo)

\* C19 witness: voice 0, taken from channel 0 by a note of channel 1, plays
\* with the non-zero bend of channel 1.
C19_Witness ==
  /\ apc # "body"
  /\ players[0].createdAt = 3
  /\ players[0].channel = 1
  /\ players[0].playing
  /\ ~players[0].released
  /\ players[0].pitchBend # 0
  /\ players[0].pitchBend = channels[1].pitchBend
  /\ players[1].createdAt = 2
  /\ players[1].playing
  /\ 0 \in Entries(0, 60)

====
